---- MODULE Spec2Model ----
(***************************************************************************)
(* Job orchestration of videoshrink: the queue workers (compression, GIF,  *)
(* thumbnail, frame extraction, trim, conversion, audio), the FFmpeg       *)
(* executor they drive, the job store they write, the Redis channel they   *)
(* publish on and the DELETE route that cancels or deletes a job.          *)
(*                                                                         *)
(* One job is followed (jobs are independent).  Every "await" of a handler *)
(* is an interleaving point: an action is the effect of the awaited I/O    *)
(* followed by the synchronous code up to the next await.                  *)
(*                                                                         *)
(* Progress values are integers in thousandths of a percent (100% is       *)
(* 100000), so that the weightings 0.4, 0.6, 1/2, 1/4 are exact.           *)
(* Time is a logical clock whose tick is one second.                       *)
(***************************************************************************)
EXTENDS Integers, Sequences, FiniteSets, TLC

\* ---------------------------------------------------------------- bounds
\* deliveries of the job's queue task (at-least-once queue)
MaxDeliveries == 2
\* stderr chunks carrying a progress marker that one delivery's children emit
MaxChunks == 2
\* DELETE requests a client sends for the job
MaxDeletes == 1
\* last value of the logical clock
MaxClock == 1
\* largest number of thumbnail timestamps of a job
MaxItems == 2

\* events of the environment in one behaviour, over all of the above: extra
\* deliveries, progress chunks, DELETE requests, clock ticks, worker crashes
MaxEnvEvents == 2

\* execute() calls a direct caller makes on one FFmpegExecutor instance
MaxCalls == 2
\* kill() calls a direct caller makes on that instance
MaxKills == 2
\* largest number of thumbnail timestamps when the progress callback is
\* taken alone
MaxCalcItems == 4
\* clients that open the SSE progress stream of the job
MaxSubs == 2
\* events published on the job's channel when the stream is taken alone
MaxEvents == 2
\* heartbeats one stream's interval timer fires
MaxBeats == 1

Pct(x) == x * 1000
Min(a, b) == IF a < b THEN a ELSE b

Runners == 1..MaxDeliveries

Kinds == {"compress", "gif", "thumbnail", "frames", "trim", "convert", "audio"}

\* progress values FFmpegExecutor.parseProgress hands to onProgress
ExecProgress == {Pct(50), Pct(100)}
\* totalFrames of a frame job that was given estimatedFrames
TotalFrames == 2
\* frame numbers a "frame=" marker of the log carries
FrameMarks == 1..(TotalFrames + 1)

NULL == "null"

VARIABLES
  kind,    \* the job's kind
  opt,     \* compress: presetConfig.twoPass; gif: optimize; frames:
           \* estimatedFrames given; thumbnail: timestamps given; convert:
           \* toFormat is a video format
  count,   \* thumbnail: number of timestamps (given, or the count asked for)
  job,     \* the job's record in the store
  events,  \* events published on the job's channel, in order
  run,     \* per delivery: the worker handler's position and locals
  cbs,     \* per delivery: async progress callbacks still in flight
  del,     \* the DELETE route's handler
  now,     \* clock
  env,     \* events of the environment so far
  exe,     \* an FFmpegExecutor instance driven by a direct caller
  calc,    \* a progress callback's computation, taken alone
  sse,     \* per subscriber: its request to the SSE progress endpoint
  sub      \* the submission route's handler for the job

\* the state of the job system
jobVars == <<kind, opt, count, job, events, run, cbs, del, now, env, sse, sub>>

vars ==
  <<kind, opt, count, job, events, run, cbs, del, now, env, exe, calc, sse, sub>>

\* ------------------------------------------------------ FFmpegExecutor
\* proc: this.process; killed: this.killed; timer: timeoutHandle armed;
\* promise/result: the promise execute() returned and how it settled;
\* timedOut: the timer of the current call has fired; sigkills, emitted:
\* SIGKILLs sent and 'killed' events emitted by this instance so far;
\* stale: timers of earlier calls that were still armed when a later call
\* overwrote timeoutHandle.
NewExecutor ==
  [proc |-> "none", killed |-> FALSE, timer |-> FALSE,
   promise |-> "none", result |-> "none", timedOut |-> FALSE,
   sigkills |-> 0, emitted |-> 0, stale |-> 0]

\* success of the ExecutionResult a call resolved with
Success(e) == e.promise = "resolved" /\ e.result = "ok"

\* a promise whose later resolve/reject calls replaced the outcome
SettleOverwrites(e, how, res) == [e EXCEPT !.promise = how, !.result = res]

\* a promise settles once: later resolve/reject calls are ignored
Settle(e, how, res) ==
  IF e.promise = "pending" THEN [e EXCEPT !.promise = how, !.result = res] ELSE e

\* execute(): spawn, arm the timer (timeoutHandle is overwritten), return
\* a new promise
Execute(e) ==
  [e EXCEPT !.proc = "running", !.timer = TRUE,
            !.promise = "pending", !.result = "none", !.timedOut = FALSE,
            !.stale = IF e.timer THEN @ + 1 ELSE @]

\* a kill() without the "not killed yet" test
KillUnguarded(e) ==
  IF e.proc # "none"
  THEN [e EXCEPT !.killed = TRUE, !.sigkills = @ + 1, !.emitted = @ + 1]
  ELSE e

Kill(e) ==
  IF e.proc # "none" /\ ~e.killed
  THEN [e EXCEPT !.killed = TRUE, !.sigkills = @ + 1, !.emitted = @ + 1]
  ELSE e

\* a timer callback that rejects without killing the child
OnTimeoutNoKill(e) ==
  Settle([e EXCEPT !.timer = FALSE, !.timedOut = TRUE], "rejected", "timeout")

\* the timer's callback: this.kill(); reject(new Error('... timed out ...'))
OnTimeout(e) ==
  Settle(Kill([e EXCEPT !.timer = FALSE, !.timedOut = TRUE]), "rejected", "timeout")

\* a 'close' handler without the clearTimeout
OnCloseKeepsTimer(e, code) ==
  LET e1 == [e EXCEPT !.proc = "exited"] IN
  IF e.killed THEN Settle(e1, "resolved", "killed")
  ELSE IF code = 0 THEN Settle(e1, "resolved", "ok")
  ELSE Settle(e1, "resolved", "exit")

\* the 'close' handler: clearTimeout, then resolve by killed flag and code
OnClose(e, code) ==
  LET e1 == [e EXCEPT !.timer = FALSE, !.proc = "exited"] IN
  IF e.killed THEN Settle(e1, "resolved", "killed")
  ELSE IF code = 0 THEN Settle(e1, "resolved", "ok")
  ELSE Settle(e1, "resolved", "exit")

\* the 'error' handler: clearTimeout; reject({success: false, ...})
OnError(e) ==
  Settle([e EXCEPT !.timer = FALSE, !.proc = "errored"], "rejected", "spawn")

\* error.message the handler's catch block sees for a failed execute call;
\* a spawn error rejects with a plain object, which has no .message
ResultMessage(res) ==
  CASE res = "killed" -> "killed"
    [] res = "exit" -> "exit"
    [] res = "timeout" -> "timeout"
    [] res = "spawn" -> "undefined"
    [] OTHER -> "none"


\* a caller that holds one instance: ex, the instance; calls, kills: the
\* execute() and kill() calls made so far; code: exit code of the last
\* 'close' (-1: none yet); killedNow: kill() ran since the current call began
NewCaller ==
  [ex |-> NewExecutor, calls |-> 0, kills |-> 0, code |-> -1, killedNow |-> FALSE]

\* ------------------------------------------------------ SSE endpoint
Subs == 1..MaxSubs

\* a request to GET /api/jobs/:id/progress.  pc: none (no request yet),
\* subscribing (awaiting subscriber.subscribe), acked (Redis has subscribed
\* the connection, the handler has not resumed), open (handler done);
\* heartbeat: the interval timer is armed; redis: the duplicate connection
\* (none, subscribed, unsubscribing, closed); cursor: channel events handed
\* to the connection so far; got: indices of the events written to the
\* response; from: events on the channel when Redis subscribed it;
\* ended: reply.raw.end() was called; gone: the client disconnected;
\* timers: pending delayed cleanups; dropped: events that reached the
\* connection with no 'message' listener; lateWrites: writes attempted on
\* the ended response; beats: heartbeats written; snap, pub: the poll
\* endpoint's answer to this client and the last progress published before
\* it was read
NewSub ==
  [pc |-> "none", heartbeat |-> FALSE, redis |-> "none", cursor |-> 0,
   got |-> <<>>, from |-> -1, ended |-> FALSE, gone |-> FALSE, timers |-> 0,
   dropped |-> 0, lateWrites |-> 0, beats |-> 0,
   snap |-> [status |-> "none", progress |-> -1], pub |-> -1]

\* the submission request was answered 201: record created, task queued
Accepted == [pc |-> "accepted"]

\* no callback computation under way
NoCalc == [fn |-> "none"]

\* ------------------------------------------------- progress weighting
\* compression onProgress: pass i (zero-based) of n commands
CompressProgress(i, n, p) ==
  LET passProgress == IF n > 1 THEN 50 ELSE 100
      baseProgress == i * passProgress
  IN Min(Pct(baseProgress) + (p * passProgress) \div 100, Pct(100))

\* GIF worker, palette pass: progress * 0.4
GifPaletteProgress(p) == (p * 4) \div 10

\* a GIF pass weighted like the palette pass
GifProgressEvenSplit(optimize, p) ==
  IF optimize THEN Pct(40) + (p * 4) \div 10 ELSE p

\* GIF worker, GIF pass: optimize ? 40 + progress * 0.6 : progress
GifProgress(optimize, p) == IF optimize THEN Pct(40) + (p * 6) \div 10 ELSE p

\* a thumbnail weighting that counts the running item as done
ThumbnailProgressNextItem(i, n, p) == ((i + 1) * Pct(100)) \div n + p \div n

\* thumbnail worker: (i / N) * 100 + progress / N
ThumbnailProgress(i, n, p) == (i * Pct(100)) \div n + p \div n

\* frame worker, onLog: Math.min((frame / totalFrames) * 100, 99.5)
FrameLogProgress(frame, total) == Min((frame * Pct(100)) \div total, 99500)

\* frame worker, maybeUpdateProgress: the value it stores and publishes
FrameClamp(p) == Min(p, 99500)

\* frame worker, maybeUpdateProgress: the call is dropped
FrameThrottled(p, lastProgress, lastUpdate, t) ==
  p < lastProgress + Pct(1) /\ lastUpdate # -1 /\ t - lastUpdate < 1

\* ------------------------------------------------------ job kinds
\* number of executor invocations of the job
NumInvocations ==
  CASE kind = "compress" -> IF opt THEN 2 ELSE 1
    [] kind = "gif" -> IF opt THEN 2 ELSE 1
    [] kind = "thumbnail" -> count
    [] OTHER -> 1

\* the handlers that look at result.success of execute()
ChecksResult == kind \in {"compress", "frames"}

\* the handlers whose failed write sets completedAt
FailedSetsCompletedAt == kind # "compress"

\* what the stderr chunk of a child carries for the handler's callback:
\* a frame number when the frame worker reads the log, else a progress value
ChunkValues ==
  IF kind = "frames" /\ opt THEN FrameMarks ELSE ExecProgress

\* the job-level progress the callback of runner state s computes for x
JobProgress(s, x) ==
  CASE kind = "compress" -> CompressProgress(s.i, NumInvocations, x)
    [] kind = "gif" -> IF opt /\ s.i = 0 THEN GifPaletteProgress(x)
                       ELSE GifProgress(opt, x)
    [] kind = "thumbnail" -> ThumbnailProgress(s.i, count, x)
    [] kind = "frames" -> IF opt THEN FrameLogProgress(x, TotalFrames) ELSE x
    [] OTHER -> x

\* first awaited call of the progress callback
FirstStage == IF kind = "compress" THEN "bull" ELSE "db"

\* ------------------------------------------------------ handler steps
\* pc: the handler's position; i: index of the running invocation; ex: its
\* executor; err: error.message in the catch block; lastProgress,
\* lastUpdate: the frame worker's throttle; size, files: what the completed
\* write will store.  Three fields only record what happened, for the
\* properties: late (the job was already terminal when the task was handed
\* out), failed (an invocation did not return success = true) and reported
\* (the job-level progress of the last callback that went on to store and
\* publish, -1 before the first).
IdleRun ==
  [pc |-> "idle", i |-> 0, ex |-> NewExecutor, err |-> "none", chunks |-> 0,
   lastProgress |-> 0, lastUpdate |-> -1, size |-> NULL, files |-> -1,
   late |-> FALSE, failed |-> FALSE, reported |-> -1]

\* the catch block is entered with error.message = msg
Catch(s, msg) == [s EXCEPT !.pc = "failwrite", !.err = msg]

\* the code after the last invocation, up to the completed write;
\* fileExists: the output file is on disk, nfiles: files readdirSync lists
AfterInvocations(s, fileExists, nfiles) ==
  CASE kind = "compress" -> [s EXCEPT !.pc = "bull100"]
    [] kind = "thumbnail" -> [s EXCEPT !.pc = "complete", !.files = count]
    [] kind = "frames" -> [s EXCEPT !.pc = "complete", !.files = nfiles]
    [] kind = "convert" ->
         IF fileExists
         THEN [s EXCEPT !.pc = IF opt THEN "thumb" ELSE "complete", !.size = "size"]
         ELSE Catch(s, "enoent")
    [] OTHER -> IF fileExists THEN [s EXCEPT !.pc = "complete", !.size = "size"]
                ELSE Catch(s, "enoent")

\* the handlers that probe the input before the first invocation
Probes == kind = "convert" \/ (kind = "thumbnail" /\ ~opt)

\* the first child is spawned; a job with no invocation goes straight on
Begin(s) ==
  IF NumInvocations = 0 THEN AfterInvocations(s, TRUE, 0)
  ELSE [s EXCEPT !.pc = "exec", !.ex = Execute(NewExecutor)]

\* the code after the "processing" update
AfterMark(s) == IF Probes THEN [s EXCEPT !.pc = "probe"] ELSE Begin(s)

\* the next invocation is spawned (compression builds a new executor per
\* pass, the GIF and thumbnail workers reuse one)
NextInvocation(s) ==
  [s EXCEPT !.i = s.i + 1,
            !.ex = Execute(IF kind = "compress" THEN NewExecutor ELSE s.ex)]

\* the handler resumes after "await executor.execute(...)" resolved
Resolved(s0, fileExists, nfiles) ==
  LET s == [s0 EXCEPT !.failed = @ \/ ~Success(s0.ex)] IN
  IF ChecksResult /\ ~Success(s.ex) THEN Catch(s, ResultMessage(s.ex.result))
  ELSE IF s.i + 1 < NumInvocations THEN NextInvocation(s)
  ELSE AfterInvocations(s, fileExists, nfiles)

\* the handler resumes after "await executor.execute(...)" rejected
Rejected(s) == Catch([s EXCEPT !.failed = TRUE], ResultMessage(s.ex.result))

\* ------------------------------------------------------ the store
\* the record the submission route created: pending, progress 0
NewJob ==
  [exists |-> TRUE, status |-> "pending", progress |-> 0, error |-> NULL,
   output |-> NULL, outputSize |-> NULL, files |-> -1,
   createdAt |-> 0, startedAt |-> -1, completedAt |-> -1]

Terminal == {"completed", "failed"}

\* the Redis channel the job's worker publishes on
PublishChannel ==
  CASE kind = "compress" -> "job:id:progress"
    [] kind = "trim" -> "trim:progress:id"
    [] kind = "gif" -> "gif:progress:id"
    [] kind = "audio" -> "audio:progress:id"
    [] kind = "thumbnail" -> "thumbnail:progress:id"
    [] kind = "frames" -> "frames:progress:id"
    [] kind = "convert" -> "conversion:progress:id"

\* the channel GET /api/jobs/:id/progress subscribes to
StreamChannel == "job:id:progress"

\* an event a worker published for the job; by: the delivery whose handler
\* sent it; at: when; channel: where
Published(st, p, r) ==
  [status |-> st, progress |-> p, by |-> r, at |-> now,
   channel |-> PublishChannel]

Init ==
  /\ kind \in Kinds
  /\ opt \in IF kind \in {"trim", "audio"} THEN {FALSE} ELSE BOOLEAN
  /\ count \in IF kind # "thumbnail" THEN {1}
              ELSE IF opt THEN 0..MaxItems ELSE 1..MaxItems
  /\ job = NewJob
  /\ events = <<>>
  /\ run = [r \in Runners |-> IdleRun]
  /\ cbs = [r \in Runners |-> <<>>]
  /\ del = [pc |-> "idle", seen |-> "none", n |-> 0]
  /\ now = 0
  /\ env = 0
  /\ exe = NewCaller
  /\ calc = NoCalc
  /\ sse = [s \in Subs |-> NewSub]
  /\ sub = Accepted

\* ------------------------------------------------------ worker handler
\* a delivery is over: the handler returned, threw, or its worker died
Ended == {"returned", "threw", "crashed"}

\* the queue hands the task to one worker at a time (the task is locked
\* while a handler runs) and hands it out again when the handler's end was
\* not acknowledged.  The handler starts and issues the "processing" update
Deliver(r) ==
  /\ run[r].pc = "idle"
  /\ (IF r = 1 THEN env' = env
      ELSE run[r - 1].pc \in Ended /\ env < MaxEnvEvents /\ env' = env + 1)
  /\ run' = [run EXCEPT ![r].pc = "mark",
                        ![r].late = job.exists /\ job.status \in Terminal]
  /\ UNCHANGED <<sub, sse, exe, calc, kind, opt, count, job, events, cbs, del, now>>

\* a first update that leaves startedAt out
MarkedProcessingNoStart(j, t) == [j EXCEPT !.status = "processing", !.progress = 0]

\* the record after the handler's first update
MarkedProcessing(j, t) ==
  [j EXCEPT !.status = "processing", !.startedAt = t, !.progress = 0]

\* prisma update {status: processing, startedAt, progress: 0}; then the
\* input is probed or the commands are built and the first child is spawned
MarkProcessing(r) ==
  /\ run[r].pc = "mark"
  /\ IF job.exists
     THEN /\ job' = MarkedProcessing(job, now)
          /\ run' = [run EXCEPT ![r] = AfterMark(@)]
     ELSE /\ job' = job
          /\ run' = [run EXCEPT ![r] = Catch(@, "notfound")]
  /\ UNCHANGED <<sub, sse, exe, calc, kind, opt, count, events, cbs, del, now, env>>

\* "await probeVideo(inputFile)" returns or throws: the conversion worker
\* swallows the error, the thumbnail worker's catch block gets it
ProbeDone(r, ok) ==
  /\ run[r].pc = "probe"
  /\ run' = [run EXCEPT ![r] =
        IF ok \/ kind = "convert" THEN Begin(@) ELSE Catch(@, "probe")]
  /\ UNCHANGED <<sub, sse, exe, calc, kind, opt, count, job, events, cbs, del, now, env>>

\* a stderr chunk with a progress marker: the executor calls the handler's
\* callback and does not await it; the callback runs to its first await
Stderr(r, x) ==
  LET s == run[r]
      p == JobProgress(s, x)
  IN
  /\ s.ex.proc = "running"
  /\ s.chunks < MaxChunks
  /\ env < MaxEnvEvents
  /\ env' = env + 1
  /\ IF kind = "frames"
     THEN IF FrameThrottled(p, s.lastProgress, s.lastUpdate, now)
          THEN /\ run' = [run EXCEPT ![r].chunks = s.chunks + 1]
               /\ cbs' = cbs
          ELSE /\ run' = [run EXCEPT ![r].chunks = s.chunks + 1,
                                     ![r].lastProgress = FrameClamp(p),
                                     ![r].lastUpdate = now,
                                     ![r].reported = FrameClamp(p)]
               /\ cbs' = [cbs EXCEPT ![r] =
                            Append(@, [val |-> FrameClamp(p), stage |-> "db"])]
     ELSE /\ run' = [run EXCEPT ![r].chunks = s.chunks + 1, ![r].reported = p]
          /\ cbs' = [cbs EXCEPT ![r] = Append(@, [val |-> p, stage |-> FirstStage])]
  /\ UNCHANGED <<sub, sse, exe, calc, kind, opt, count, job, events, del, now>>

RemoveAt(q, k) == [n \in 1..(Len(q) - 1) |-> IF n < k THEN q[n] ELSE q[n + 1]]

\* compression callback: "await job.updateProgress(totalProgress)" returns
\* (it writes the queue task's own progress, which nothing here reads)
CallbackQueueProgress(r, k) ==
  /\ k \in DOMAIN cbs[r]
  /\ cbs[r][k].stage = "bull"
  /\ cbs' = [cbs EXCEPT ![r][k].stage = "db"]
  /\ UNCHANGED <<sub, sse, exe, calc, kind, opt, count, job, events, run, del, now, env>>

\* the worker process is gone: handler, callbacks and child listeners
Dead(s) ==
  IF s.pc \in Ended THEN [s EXCEPT !.ex = NewExecutor]
  ELSE [s EXCEPT !.pc = "crashed", !.ex = NewExecutor]

\* callback: prisma update {progress}; on a missing record the update
\* throws and the callback's promise rejects with nobody awaiting it: the
\* runtime either only reports the unhandled rejection or ends the process
CallbackStore(r, k, dies) ==
  /\ k \in DOMAIN cbs[r]
  /\ cbs[r][k].stage = "db"
  /\ IF job.exists
     THEN /\ job' = [job EXCEPT !.progress = cbs[r][k].val]
          /\ cbs' = [cbs EXCEPT ![r][k].stage = "pub"]
          /\ run' = run
     ELSE /\ job' = job
          /\ cbs' = [cbs EXCEPT ![r] = IF dies THEN <<>> ELSE RemoveAt(@, k)]
          /\ run' = IF dies THEN [run EXCEPT ![r] = Dead(@)] ELSE run
  /\ UNCHANGED <<sub, sse, exe, calc, kind, opt, count, events, del, now, env>>

\* callback: redis publish {progress, status: 'processing'}
CallbackPublish(r, k) ==
  /\ k \in DOMAIN cbs[r]
  /\ cbs[r][k].stage = "pub"
  /\ events' = Append(events, Published("processing", cbs[r][k].val, r))
  /\ cbs' = [cbs EXCEPT ![r] = RemoveAt(@, k)]
  /\ UNCHANGED <<sub, sse, exe, calc, kind, opt, count, job, run, del, now, env>>

\* the child's 'close' event: the timer is cleared and the promise resolves
\* unless it settled before; on a resolve the handler resumes
ChildClose(r, code, fileExists, nfiles) ==
  LET s == run[r]
      e == OnClose(s.ex, code)
  IN
  /\ s.ex.proc \in {"running", "errored"}
  /\ run' = [run EXCEPT ![r] =
        IF s.ex.promise = "pending" /\ s.pc = "exec"
        THEN Resolved([s EXCEPT !.ex = e], fileExists, nfiles)
        ELSE [s EXCEPT !.ex = e]]
  /\ UNCHANGED <<sub, sse, exe, calc, kind, opt, count, job, events, cbs, del, now, env>>

\* the wall-clock timer fires before the child closed
Timeout(r) ==
  LET s == run[r]
      e == OnTimeout(s.ex)
  IN
  /\ s.ex.proc = "running"
  /\ s.ex.timer
  /\ run' = [run EXCEPT ![r] =
        IF s.ex.promise = "pending" /\ s.pc = "exec"
        THEN Rejected([s EXCEPT !.ex = e])
        ELSE [s EXCEPT !.ex = e]]
  /\ UNCHANGED <<sub, sse, exe, calc, kind, opt, count, job, events, cbs, del, now, env>>

\* the child's 'error' event (the process could not be spawned)
SpawnError(r) ==
  LET s == run[r]
      e == OnError(s.ex)
  IN
  /\ s.ex.proc = "running"
  /\ s.ex.promise = "pending"
  /\ s.pc = "exec"
  /\ run' = [run EXCEPT ![r] = Rejected([s EXCEPT !.ex = e])]
  /\ UNCHANGED <<sub, sse, exe, calc, kind, opt, count, job, events, cbs, del, now, env>>

\* compression: "await job.updateProgress(100)" returns; then
\* outputSize = existsSync(outputFile) ? statSync(outputFile).size : null
QueueProgressDone(r, fileExists) ==
  /\ run[r].pc = "bull100"
  /\ run' = [run EXCEPT ![r].pc = "complete",
                        ![r].size = IF fileExists THEN "size" ELSE NULL]
  /\ UNCHANGED <<sub, sse, exe, calc, kind, opt, count, job, events, cbs, del, now, env>>

\* conversion: "await tryGenerateThumbnail(...)" returns (it never throws)
ThumbnailTried(r) ==
  /\ run[r].pc = "thumb"
  /\ run' = [run EXCEPT ![r].pc = "complete"]
  /\ UNCHANGED <<sub, sse, exe, calc, kind, opt, count, job, events, cbs, del, now, env>>

\* the record after the handler's completed write
MarkedCompleted(j, s, t) ==
  [j EXCEPT !.status = "completed", !.progress = Pct(100),
            !.output = "set", !.outputSize = s.size, !.files = s.files,
            !.completedAt = t]

\* prisma update {status: completed, progress: 100, output..., completedAt}
CompleteWrite(r) ==
  /\ run[r].pc = "complete"
  /\ IF job.exists
     THEN /\ job' = MarkedCompleted(job, run[r], now)
          /\ run' = [run EXCEPT ![r].pc = "pubdone"]
     ELSE /\ job' = job
          /\ run' = [run EXCEPT ![r] = Catch(@, "notfound")]
  /\ UNCHANGED <<sub, sse, exe, calc, kind, opt, count, events, cbs, del, now, env>>

\* redis publish {progress: 100, status: 'completed'}; the handler returns
PublishCompleted(r) ==
  /\ run[r].pc = "pubdone"
  /\ events' = Append(events, Published("completed", Pct(100), r))
  /\ run' = [run EXCEPT ![r].pc = "returned"]
  /\ UNCHANGED <<sub, sse, exe, calc, kind, opt, count, job, cbs, del, now, env>>

\* the record after the catch block's write; error: undefined leaves the
\* stored error as it is
MarkedFailed(j, msg, t) ==
  [j EXCEPT !.status = "failed",
            !.error = IF msg = "undefined" THEN @ ELSE msg,
            !.completedAt = IF FailedSetsCompletedAt THEN t ELSE @]

\* catch block: prisma update {status: failed, error}; when it throws
\* (no record) the handler rejects without publishing
FailWrite(r) ==
  /\ run[r].pc = "failwrite"
  /\ IF job.exists
     THEN /\ job' = MarkedFailed(job, run[r].err, now)
          /\ run' = [run EXCEPT ![r].pc = "pubfail"]
     ELSE /\ job' = job
          /\ run' = [run EXCEPT ![r].pc = "threw"]
  /\ UNCHANGED <<sub, sse, exe, calc, kind, opt, count, events, cbs, del, now, env>>

\* catch block: redis publish {status: 'failed', error}; then "throw error"
PublishFailed(r) ==
  /\ run[r].pc = "pubfail"
  /\ events' = Append(events, Published("failed", -1, r))
  /\ run' = [run EXCEPT ![r].pc = "threw"]
  /\ UNCHANGED <<sub, sse, exe, calc, kind, opt, count, job, cbs, del, now, env>>

\* the store, queue or Redis call the handler is awaiting rejects (the
\* connection is lost): inside the try block the catch block is entered with
\* that error, inside the catch block the handler throws
AwaitsInfra == {"mark", "bull100", "complete", "pubdone", "failwrite", "pubfail"}

InfraError(r) ==
  /\ run[r].pc \in AwaitsInfra
  /\ env < MaxEnvEvents
  /\ env' = env + 1
  /\ run' = [run EXCEPT ![r] =
        IF @.pc \in {"failwrite", "pubfail"} THEN [@ EXCEPT !.pc = "threw"]
        ELSE Catch(@, "infra")]
  /\ UNCHANGED <<sub, sse, exe, calc, kind, opt, count, job, events, cbs, del, now>>

\* ------------------------------------------------------ DELETE route
\* findUnique: the handler reads the record
DeleteRead ==
  /\ del.pc = "idle"
  /\ del.n < MaxDeletes
  /\ env < MaxEnvEvents
  /\ env' = env + 1
  /\ del' = IF job.exists
            THEN [pc |-> "write", seen |-> job.status, n |-> del.n + 1]
            ELSE [pc |-> "idle", seen |-> "none", n |-> del.n + 1]
  /\ UNCHANGED <<sub, sse, exe, calc, kind, opt, count, job, events, run, cbs, now>>

\* DELETE /api/jobs/:id cancels a pending or processing compression job;
\* every other case deletes the record
Cancels(seen) == kind = "compress" /\ seen \in {"pending", "processing"}

\* a cancel branch that stamped the record as finished as well
MarkedCancelledStamped(j) ==
  [j EXCEPT !.status = "failed", !.error = "cancelled", !.completedAt = 0]

\* the record after the cancel branch's update
MarkedCancelled(j) == [j EXCEPT !.status = "failed", !.error = "cancelled"]

\* the update or the delete the handler issued after its read; either
\* throws on a missing record and the route answers 500
DeleteWrite ==
  /\ del.pc = "write"
  /\ job' = IF ~job.exists THEN job
            ELSE IF Cancels(del.seen) THEN MarkedCancelled(job)
            ELSE [job EXCEPT !.exists = FALSE]
  /\ del' = [del EXCEPT !.pc = "idle", !.seen = "none"]
  /\ UNCHANGED <<sub, sse, exe, calc, kind, opt, count, events, run, cbs, now, env>>

\* the worker process dies: its handler, its callbacks and its listeners
\* on the child are gone
Crash(r) ==
  /\ run[r].pc \notin Ended \cup {"idle"}
  /\ env < MaxEnvEvents
  /\ env' = env + 1
  /\ run' = [run EXCEPT ![r] = Dead(@)]
  /\ cbs' = [cbs EXCEPT ![r] = <<>>]
  /\ UNCHANGED <<sub, sse, exe, calc, kind, opt, count, job, events, del, now>>

Tick ==
  /\ now < MaxClock
  /\ env < MaxEnvEvents
  /\ now' = now + 1
  /\ env' = env + 1
  /\ UNCHANGED <<sub, sse, exe, calc, kind, opt, count, job, events, run, cbs, del>>

Next ==
  \/ \E r \in Runners : Deliver(r)
  \/ \E r \in Runners : MarkProcessing(r)
  \/ \E r \in Runners, ok \in BOOLEAN : ProbeDone(r, ok)
  \/ \E r \in Runners, x \in ChunkValues : Stderr(r, x)
  \/ \E r \in Runners, k \in 1..MaxChunks : CallbackQueueProgress(r, k)
  \/ \E r \in Runners, k \in 1..MaxChunks, dies \in BOOLEAN : CallbackStore(r, k, dies)
  \/ \E r \in Runners, k \in 1..MaxChunks : CallbackPublish(r, k)
  \/ \E r \in Runners, code \in {0, 1}, f \in BOOLEAN, n \in 0..1 :
        ChildClose(r, code, f, n)
  \/ \E r \in Runners : Timeout(r)
  \/ \E r \in Runners : SpawnError(r)
  \/ \E r \in Runners, f \in BOOLEAN : QueueProgressDone(r, f)
  \/ \E r \in Runners : ThumbnailTried(r)
  \/ \E r \in Runners : CompleteWrite(r)
  \/ \E r \in Runners : PublishCompleted(r)
  \/ \E r \in Runners : FailWrite(r)
  \/ \E r \in Runners : PublishFailed(r)
  \/ \E r \in Runners : InfraError(r)
  \/ \E r \in Runners : Crash(r)
  \/ DeleteRead
  \/ DeleteWrite
  \/ Tick

Spec == Init /\ [][Next]_vars

\* ------------------------------------------- one delivery, undisturbed
\* The first delivery's handler with its children and callbacks, and nothing
\* else: no second delivery, no DELETE request, no crash of the worker.
RunNext ==
  \/ Deliver(1)
  \/ MarkProcessing(1)
  \/ \E ok \in BOOLEAN : ProbeDone(1, ok)
  \/ \E x \in ChunkValues : Stderr(1, x)
  \/ \E k \in 1..MaxChunks : CallbackQueueProgress(1, k)
  \/ \E k \in 1..MaxChunks : CallbackStore(1, k, FALSE)
  \/ \E k \in 1..MaxChunks : CallbackPublish(1, k)
  \/ \E code \in {0, 1}, f \in BOOLEAN, n \in 0..1 : ChildClose(1, code, f, n)
  \/ Timeout(1)
  \/ SpawnError(1)
  \/ \E f \in BOOLEAN : QueueProgressDone(1, f)
  \/ ThumbnailTried(1)
  \/ CompleteWrite(1)
  \/ PublishCompleted(1)
  \/ FailWrite(1)
  \/ PublishFailed(1)
  \/ InfraError(1)
  \/ Tick

RunSpec == Init /\ [][RunNext]_vars

\* one delivery and a client's DELETE requests
RunDeleteNext ==
  \/ RunNext
  \/ DeleteRead
  \/ DeleteWrite

RunDeleteSpec == Init /\ [][RunDeleteNext]_vars

\* ------------------------------------------- submission routes
\* the record prisma.<job>.create stores
CreatedRecordStarted(t) ==
  [NewJob EXCEPT !.createdAt = t, !.status = "processing"]

CreatedRecord(t) == [NewJob EXCEPT !.createdAt = t]

\* no request yet: no record, no task in the queue
SubmitInit ==
  /\ kind \in Kinds
  /\ opt \in IF kind \in {"trim", "audio"} THEN {FALSE} ELSE BOOLEAN
  /\ count \in IF kind # "thumbnail" THEN {1}
              ELSE IF opt THEN 0..MaxItems ELSE 1..MaxItems
  /\ job = [NewJob EXCEPT !.exists = FALSE]
  /\ events = <<>>
  /\ run = [r \in Runners |-> [IdleRun EXCEPT !.pc = "unqueued"]]
  /\ cbs = [r \in Runners |-> <<>>]
  /\ del = [pc |-> "idle", seen |-> "none", n |-> 0]
  /\ now = 0
  /\ env = 0
  /\ exe = NewCaller
  /\ calc = NoCalc
  /\ sse = [s \in Subs |-> NewSub]
  /\ sub = [pc |-> "none"]

\* the request arrives and is validated (file lookup, formats, ranges): an
\* invalid one is answered 400/404 before anything is stored
SubmitRequest(valid) ==
  /\ sub.pc = "none"
  /\ sub' = [pc |-> IF valid THEN "create" ELSE "rejected"]
  /\ UNCHANGED <<sse, exe, calc, kind, opt, count, job, events, run, cbs, del, now, env>>

\* await prisma.<job>.create({status: 'pending', progress: 0, ...}); a
\* rejection is caught and answered 500
SubmitCreate(ok) ==
  /\ sub.pc = "create"
  /\ job' = IF ok THEN CreatedRecord(now) ELSE job
  /\ sub' = [pc |-> IF ok THEN "enqueue" ELSE "error"]
  /\ UNCHANGED <<sse, exe, calc, kind, opt, count, events, run, cbs, del, now, env>>

\* await <queue>.add(...), then 201; a rejection is caught and answered 500,
\* the record stays as it is
SubmitEnqueue(ok) ==
  /\ sub.pc = "enqueue"
  /\ run' = IF ok THEN [run EXCEPT ![1].pc = "idle"] ELSE run
  /\ sub' = [pc |-> IF ok THEN "accepted" ELSE "error"]
  /\ UNCHANGED <<sse, exe, calc, kind, opt, count, job, events, cbs, del, now, env>>

\* a submission and the delivery of its task
SubmitNext ==
  \/ \E valid \in BOOLEAN : SubmitRequest(valid)
  \/ \E ok \in BOOLEAN : SubmitCreate(ok)
  \/ \E ok \in BOOLEAN : SubmitEnqueue(ok)
  \/ RunNext

SubmitSpec == SubmitInit /\ [][SubmitNext]_vars

\* the event loop and the workers go on; requests and children owe nothing
\* beyond ending: a child that was spawned closes
SubmitLiveSpec ==
  /\ SubmitSpec
  /\ WF_vars(\E ok \in BOOLEAN : SubmitCreate(ok))
  /\ WF_vars(\E ok \in BOOLEAN : SubmitEnqueue(ok))
  /\ WF_vars(Deliver(1))
  /\ WF_vars(MarkProcessing(1))
  /\ WF_vars(\E ok \in BOOLEAN : ProbeDone(1, ok))
  /\ WF_vars(\E code \in {0, 1}, f \in BOOLEAN, n \in 0..1 : ChildClose(1, code, f, n))
  /\ WF_vars(\E f \in BOOLEAN : QueueProgressDone(1, f))
  /\ WF_vars(ThumbnailTried(1))
  /\ WF_vars(CompleteWrite(1))
  /\ WF_vars(FailWrite(1))

\* ------------------------------------------- SSE progress stream
\* cleanup(): clearInterval; unsubscribe and quit when the connection is
\* ready; end the response unless it is ended
Cleanup(u) ==
  [u EXCEPT !.heartbeat = FALSE,
            !.redis = IF @ = "subscribed" THEN "unsubscribing" ELSE @,
            !.ended = TRUE]

\* reply.raw.write(...) of the handler's callbacks
Write(u, n) ==
  IF u.ended THEN [u EXCEPT !.lateWrites = @ + 1]
  ELSE [u EXCEPT !.got = Append(@, n)]

\* the request arrives: headers, setInterval(heartbeat), duplicate(), and
\* the handler awaits subscriber.subscribe(channel)
SseRequest(s) ==
  /\ sse[s].pc = "none"
  /\ sse' = [sse EXCEPT ![s].pc = "subscribing", ![s].heartbeat = TRUE,
                        ![s].redis = "connecting"]
  /\ UNCHANGED <<sub, exe, calc, kind, opt, count, job, events, run, cbs, del, now, env>>

\* Redis subscribes the connection to the channel: it gets the events
\* published from now on
SseSubscribed(s) ==
  /\ sse[s].pc = "subscribing"
  /\ sse' = [sse EXCEPT ![s].pc = "acked", ![s].redis = "subscribed",
                        ![s].from = Len(events), ![s].cursor = Len(events)]
  /\ UNCHANGED <<sub, exe, calc, kind, opt, count, job, events, run, cbs, del, now, env>>

\* the handler resumes after the await: it attaches the 'message' listener,
\* defines cleanup and attaches the request's 'close' listener
SseListen(s) ==
  /\ sse[s].pc = "acked"
  /\ sse' = [sse EXCEPT ![s].pc = "open"]
  /\ UNCHANGED <<sub, exe, calc, kind, opt, count, job, events, run, cbs, del, now, env>>

\* the next event of its channel reaches the connection: with a listener it
\* is written to the response and a terminal one arms the delayed cleanup;
\* with no listener yet it is lost
SseMessage(s) ==
  LET u == sse[s]
      ns == {m \in DOMAIN events :
               m > u.cursor /\ events[m].channel = StreamChannel}
      n == CHOOSE m \in ns : \A k \in ns : m <= k
  IN
  /\ u.redis \in {"subscribed", "unsubscribing"}
  /\ ns # {}
  /\ sse' = [sse EXCEPT ![s] =
        IF u.pc = "acked"
        THEN [u EXCEPT !.cursor = n, !.dropped = @ + 1]
        ELSE [Write(u, n) EXCEPT
                !.cursor = n,
                !.timers = IF events[n].status \in Terminal THEN @ + 1 ELSE @]]
  /\ UNCHANGED <<sub, exe, calc, kind, opt, count, job, events, run, cbs, del, now, env>>

\* setTimeout(() => cleanup(), 1000) fires
SseTimer(s) ==
  /\ sse[s].timers > 0
  /\ sse' = [sse EXCEPT ![s] = [Cleanup(@) EXCEPT !.timers = @ - 1]]
  /\ UNCHANGED <<sub, exe, calc, kind, opt, count, job, events, run, cbs, del, now, env>>

\* the client disconnects: request.raw emits 'close', which runs cleanup
\* when the listener is attached already
SseClientClose(s) ==
  /\ sse[s].pc # "none"
  /\ ~sse[s].gone
  /\ sse' = [sse EXCEPT ![s] =
        IF @.pc = "open" THEN [Cleanup(@) EXCEPT !.gone = TRUE]
        ELSE [@ EXCEPT !.gone = TRUE]]
  /\ UNCHANGED <<sub, exe, calc, kind, opt, count, job, events, run, cbs, del, now, env>>

\* Redis has processed the unsubscribe; quit closes the connection
SseUnsubscribed(s) ==
  /\ sse[s].redis = "unsubscribing"
  /\ sse' = [sse EXCEPT ![s].redis = "closed"]
  /\ UNCHANGED <<sub, exe, calc, kind, opt, count, job, events, run, cbs, del, now, env>>

\* the interval timer fires: a heartbeat comment is written
SseHeartbeat(s) ==
  /\ sse[s].heartbeat
  /\ sse[s].beats < MaxBeats
  /\ sse' = [sse EXCEPT ![s] =
        IF @.ended THEN [@ EXCEPT !.lateWrites = @ + 1, !.beats = @ + 1]
        ELSE [@ EXCEPT !.beats = @ + 1]]
  /\ UNCHANGED <<sub, exe, calc, kind, opt, count, job, events, run, cbs, del, now, env>>

\* progress of the last processing event on the channel, -1 when none
LastPublished ==
  LET ns == {n \in DOMAIN events : events[n].status = "processing"} IN
  IF ns = {} THEN -1
  ELSE events[CHOOSE n \in ns : \A m \in ns : m <= n].progress

\* GET /api/jobs/:id/progress/poll: the client reads the stored record
SsePoll(s) ==
  /\ sse[s].pc # "none"
  /\ sse[s].snap.status = "none"
  /\ job.exists
  /\ sse' = [sse EXCEPT ![s].snap = [status |-> job.status, progress |-> job.progress],
                        ![s].pub = LastPublished]
  /\ UNCHANGED <<sub, exe, calc, kind, opt, count, job, events, run, cbs, del, now, env>>

SseStep(s) ==
  \/ SseRequest(s)
  \/ SseSubscribed(s)
  \/ SseListen(s)
  \/ SseMessage(s)
  \/ SseTimer(s)
  \/ SseClientClose(s)
  \/ SseUnsubscribed(s)
  \/ SseHeartbeat(s)

\* one delivery of the task, watched by one client that opens the stream,
\* polls and stays connected
WatchNext ==
  \/ RunNext
  \/ SseRequest(1)
  \/ SseSubscribed(1)
  \/ SseListen(1)
  \/ SseMessage(1)
  \/ SsePoll(1)

\* the watched job is a compression or a conversion job
WatchInit ==
  /\ Init
  /\ kind \in {"compress", "convert"}

WatchSpec == WatchInit /\ [][WatchNext]_vars

\* the stream taken alone: workers publish events on the job's channel
\* (late progress callbacks and re-runs publish after a terminal event too)
ChannelPublish(st, p) ==
  /\ Len(events) < MaxEvents
  /\ events' = Append(events, Published(st, IF st = "failed" THEN -1 ELSE p, 1))
  /\ UNCHANGED <<sub, sse, exe, calc, kind, opt, count, job, run, cbs, del, now, env>>

ChannelNext ==
  \/ \E st \in {"processing", "completed", "failed"}, p \in ExecProgress :
        ChannelPublish(st, p)
  \/ \E s \in Subs : SseStep(s)

\* the channel's job is a single pass compression job
ChannelInit ==
  /\ Init
  /\ kind = "compress"
  /\ ~opt

ChannelSpec == ChannelInit /\ [][ChannelNext]_vars

\* Redis answers, the event loop resumes the handler, delivers messages and
\* fires timers; clients and publishers owe nothing
ChannelLiveSpec ==
  /\ ChannelSpec
  /\ \A s \in Subs :
        /\ WF_vars(SseSubscribed(s))
        /\ WF_vars(SseListen(s))
        /\ WF_vars(SseMessage(s))
        /\ WF_vars(SseTimer(s))
        /\ WF_vars(SseUnsubscribed(s))

\* ------------------------------------------- FFmpegExecutor, on its own
\* The class is exported with execute() and kill() public: a caller that
\* holds one instance calls execute() again once the previous call has
\* settled and its child is gone, and calls kill() at any time.
ExeCall ==
  /\ exe.calls < MaxCalls
  /\ exe.ex.promise # "pending"
  /\ exe.ex.proc # "running"
  /\ exe' = [exe EXCEPT !.ex = Execute(@), !.calls = @ + 1,
                        !.code = -1, !.killedNow = FALSE]
  /\ UNCHANGED <<calc, jobVars>>

ExeKill ==
  /\ exe.kills < MaxKills
  /\ exe' = [exe EXCEPT !.ex = Kill(@), !.kills = @ + 1,
                        !.killedNow = @ \/ exe.ex.proc = "running"]
  /\ UNCHANGED <<calc, jobVars>>

ExeTimeout ==
  /\ exe.ex.proc = "running"
  /\ exe.ex.timer
  /\ exe' = [exe EXCEPT !.ex = OnTimeout(@)]
  /\ UNCHANGED <<calc, jobVars>>

ExeClose(code) ==
  /\ exe.ex.proc \in {"running", "errored"}
  /\ exe' = [exe EXCEPT !.ex = OnClose(@, code), !.code = code]
  /\ UNCHANGED <<calc, jobVars>>

ExeError ==
  /\ exe.ex.proc = "running"
  /\ exe.ex.promise = "pending"
  /\ exe' = [exe EXCEPT !.ex = OnError(@)]
  /\ UNCHANGED <<calc, jobVars>>

ExecNext ==
  \/ ExeCall
  \/ ExeKill
  \/ ExeTimeout
  \/ \E code \in {0, 1} : ExeClose(code)
  \/ ExeError

ExecSpec == Init /\ [][ExecNext]_vars

\* ------------------------------------------- progress callback, on its own
\* executor progress values in steps of 0.5, from 0 to 100
ExecProgressRange == {k * 500 : k \in 0..200}

\* what the executor can hand to the job's callback
CalcInputs == IF kind = "frames" /\ opt THEN FrameMarks ELSE ExecProgressRange

\* a job of any kind, before anything ran
CalcInit ==
  /\ kind \in Kinds
  /\ opt \in IF kind \in {"trim", "audio"} THEN {FALSE} ELSE BOOLEAN
  /\ count \in IF kind # "thumbnail" THEN {1} ELSE 1..MaxCalcItems
  /\ job = NewJob
  /\ events = <<>>
  /\ run = [r \in Runners |-> IdleRun]
  /\ cbs = [r \in Runners |-> <<>>]
  /\ del = [pc |-> "idle", seen |-> "none", n |-> 0]
  /\ now = 0
  /\ env = 0
  /\ exe = NewCaller
  /\ calc = NoCalc
  /\ sse = [s \in Subs |-> NewSub]
  /\ sub = Accepted

\* the callback of invocation i is called with x and computes the job-level
\* progress it is about to store and publish
Compute(i, x) ==
  /\ calc = NoCalc
  /\ i < NumInvocations
  /\ calc' = [fn |-> kind, i |-> i, x |-> x, out |-> JobProgress([i |-> i], x)]
  /\ UNCHANGED <<exe, jobVars>>

\* a chunk of stderr: time, the time= marker in hundredths of a second;
\* duration, the Duration: marker of the same chunk in hundredths of a
\* second; pct, the progress=N% marker; -1 where the chunk has none
Chunks ==
  [time : {-1, 0, 50, 100, 150}, duration : {-1, 0, 100},
   pct : {-1, 0, Pct(50), Pct(100), Pct(150)}]

\* parseProgress(output), -1 for null: the time marker over the duration
\* of the same chunk, capped at 100 and rounded to one decimal; otherwise the
\* percentage marker as it is printed
ParseProgress(c) ==
  IF c.time # -1 /\ c.duration > 0
  THEN Min(((2 * 1000 * c.time + c.duration) \div (2 * c.duration)) * 100, Pct(100))
  ELSE IF c.pct # -1 THEN c.pct
  ELSE -1

\* the stderr 'data' listener gets chunk c: onProgress is called when
\* parseProgress returned a number
Parse(c) ==
  /\ calc = NoCalc
  /\ calc' = [fn |-> "parse", chunk |-> c, out |-> ParseProgress(c),
              calls |-> IF ParseProgress(c) # -1 THEN 1 ELSE 0]
  /\ UNCHANGED <<exe, jobVars>>

\* the preset of a compression task; "none" when the request gave none
Presets == {"high", "medium", "low", "none"}

\* twoPass of preset ? FFmpegGenerator.getPresetConfig(preset) : {}
PresetTwoPass(preset) ==
  CASE preset = "high" -> "true"
    [] preset = "medium" -> "false"
    [] preset = "low" -> "false"
    [] OTHER -> "undefined"

\* the option the worker passes: presetConfig.twoPass || false
TwoPassOption(preset) == PresetTwoPass(preset) = "true"

\* a generator that ignores twoPass
GenerateSingleOnly(twoPass) == <<"single">>

\* FFmpegGenerator.generate: the passType of each command, in order
Generate(twoPass) ==
  IF twoPass THEN <<"first", "second">> ELSE <<"single">>

\* the compression worker builds the commands of a task with this preset
Plan(preset) ==
  /\ calc = NoCalc
  /\ kind = "compress"
  /\ opt = TwoPassOption(preset)
  /\ calc' = [fn |-> "plan", preset |-> preset,
              passes |-> Generate(TwoPassOption(preset))]
  /\ UNCHANGED <<exe, jobVars>>

\* the listener gets the next chunk of the same child: parseProgress sees
\* this chunk only, nothing is kept from the chunk before (prev)
ParseNext(c) ==
  /\ calc.fn = "parse"
  /\ calc' = [fn |-> "parse2", prev |-> calc.chunk, chunk |-> c,
              out |-> ParseProgress(c),
              calls |-> IF ParseProgress(c) # -1 THEN 1 ELSE 0]
  /\ UNCHANGED <<exe, jobVars>>

CalcNext ==
  \/ \E i \in 0..(MaxCalcItems - 1), x \in CalcInputs : Compute(i, x)
  \/ \E c \in Chunks : Parse(c)
  \/ \E c \in Chunks : ParseNext(c)
  \/ \E preset \in Presets : Plan(preset)

CalcSpec == CalcInit /\ [][CalcNext]_vars

\* ------------------------------------------------------ properties
\* the step is one of delivery r's handler or of its callbacks
HandlerStep(r) == run'[r] # run[r] \/ cbs'[r] # cbs[r]

ProcessingEvents == {n \in DOMAIN events : events[n].status = "processing"}
TerminalEvents == {n \in DOMAIN events : events[n].status \in Terminal}
EventsWith(st) == {n \in DOMAIN events : events[n].status = st}

\* C1: a task handed out again for a job that is already completed or failed
\* changes none of error, output, outputSize and completedAt of its record.
C1_RedeliveryIsNoOp ==
  [][\A r \in Runners :
       (r > 1 /\ run[r].late /\ HandlerStep(r) /\ job.exists)
         => /\ job'.error = job.error
            /\ job'.output = job.output
            /\ job'.outputSize = job.outputSize
            /\ job'.completedAt = job.completedAt]_vars

\* C2: once the stored status is completed or failed it never changes.
C2_TerminalIsFinal ==
  [][(job.exists /\ job.status \in Terminal /\ job'.exists)
       => job'.status = job.status]_vars

\* C3: a completed job has an output and no error, a failed job has an
\* error and no output.
C3_OutputXorError ==
  job.exists =>
    /\ job.status = "completed" => (job.output # NULL /\ job.error = NULL)
    /\ job.status = "failed" => (job.error # NULL /\ job.output = NULL)

\* C4: the progress values one delivery publishes with status processing
\* are non-decreasing in the order they are published.
C4_PublishedProgressMonotonic ==
  \A a, b \in ProcessingEvents :
    (a < b /\ events[a].by = events[b].by)
      => events[a].progress <= events[b].progress

\* C5: every progress value stored or published with status processing is
\* in [0, 99.5].
C5_ProcessingProgressBelow100 ==
  /\ \A n \in ProcessingEvents :
       events[n].progress >= 0 /\ events[n].progress <= 99500
  /\ (job.exists /\ job.status = "processing")
       => (job.progress >= 0 /\ job.progress <= 99500)

\* C6: after a delivery published its terminal event it publishes no event
\* with status processing.
C6_TerminalEventIsLast ==
  \A a \in TerminalEvents, b \in ProcessingEvents :
    events[a].by = events[b].by => b < a

\* C7: a completed job has progress 100.
C7_CompletedHasFullProgress ==
  (job.exists /\ job.status = "completed") => job.progress = Pct(100)

\* no handler is between its terminal write and the publish that follows it
NoPublishPending == \A r \in Runners : run[r].pc \notin {"pubdone", "pubfail"}

\* C8: a job that is completed or failed in the store has exactly one
\* published event with that status, and a terminal event is published only
\* for a job that is terminal in the store.
C8_OneTerminalEventPerStatus ==
  (job.exists /\ NoPublishPending) =>
    /\ job.status \in Terminal => Cardinality(EventsWith(job.status)) = 1
    /\ job.status \notin Terminal => TerminalEvents = {}

\* C9: a delivery one of whose invocations did not return success = true
\* never goes on to the completed write: it does not complete the job.
C9_FailedInvocationFailsJob ==
  \A r \in Runners :
    run[r].failed => run[r].pc \notin {"bull100", "thumb", "complete", "pubdone", "returned"}

\* C10: when the timer of an execute call fired, the call resolved (it did
\* not reject) with success = false and the timeout error.
C10_TimeoutResolves ==
  \A r \in Runners :
    run[r].ex.timedOut => (run[r].ex.promise = "resolved" /\ run[r].ex.result = "timeout")

C12_ExitCodeDecidesResult ==
  [][(exe.ex.promise = "pending" /\ exe'.ex.proc = "exited"
        /\ ~exe.ex.timedOut /\ ~exe.killedNow)
       => /\ exe'.code = 0 => Success(exe'.ex)
          /\ exe'.code # 0 =>
               (exe'.ex.promise = "resolved" /\ exe'.ex.result = "exit")]_vars

\* C13: however often and whenever kill() is called on an instance, it sends
\* at most one SIGKILL and emits 'killed' at most once; it does nothing
\* before a spawn and nothing when called again; and it never changes how
\* the call's promise settled (a result already returned stays as it is).
C13_KillIdempotent ==
  /\ [](exe.ex.sigkills <= 1 /\ exe.ex.emitted <= 1)
  /\ [][(exe'.kills = exe.kills + 1)
         => /\ exe'.ex.promise = exe.ex.promise
            /\ exe'.ex.result = exe.ex.result
            /\ (exe.ex.proc = "none" \/ exe.ex.killed) => exe'.ex = exe.ex]_vars

C13_Witness ==
  /\ exe.kills = MaxKills
  /\ exe.ex.proc = "exited" /\ Success(exe.ex)
  /\ exe.ex.killed /\ exe.ex.sigkills = 1 /\ exe.ex.emitted = 1

\* C14: a job is never completed without its output: a completed compression
\* job has an output size (its file existed), a completed frame-extraction
\* job has at least one frame.
C14_NoOutputMeansFailed ==
  (job.exists /\ job.status = "completed") =>
    /\ kind = "compress" => job.outputSize # NULL
    /\ kind = "frames" => job.files > 0

\* C15: a thumbnail job with an empty list of timestamps is never completed.
C15_NoItemsMeansFailed ==
  (kind = "thumbnail" /\ count = 0 /\ job.exists) => job.status # "completed"

\* C16: in a two-phase job, phase 1 at executor progress 100 gives exactly the
\* phase-1 weight (40 for an optimized GIF, 50 for two-pass compression),
\* and phase 2 at executor progress p gives weight + p * (100 - weight) / 100
\* (the weight itself at p = 0).
C16_TwoPhaseWeighting ==
  /\ (calc.fn = "gif" /\ opt) =>
        /\ (calc.i = 0 /\ calc.x = Pct(100)) => calc.out = Pct(40)
        /\ calc.i = 1 => calc.out = Pct(40) + (calc.x * (100 - 40)) \div 100
        /\ (calc.i = 1 /\ calc.x = 0) => calc.out = Pct(40)
  /\ (calc.fn = "compress" /\ opt) =>
        /\ (calc.i = 0 /\ calc.x = Pct(100)) => calc.out = Pct(50)
        /\ calc.i = 1 => calc.out = Pct(50) + (calc.x * (100 - 50)) \div 100
        /\ (calc.i = 1 /\ calc.x = 0) => calc.out = Pct(50)

C16_Witness ==
  /\ calc.fn = "gif" /\ opt /\ calc.i = 1 /\ calc.x = Pct(50)
  /\ calc.out = Pct(70)

\* C17: a thumbnail job over N timestamps, item i (zero-based) at executor
\* progress p: the overall progress is (i + p/100) / N * 100, to the last
\* digit the model keeps; N = 4, i = 2, p = 50 gives 62.5.
C17_MultiItemWeighting ==
  calc.fn = "thumbnail" =>
    /\ count * calc.out <= calc.i * Pct(100) + calc.x
    /\ calc.i * Pct(100) + calc.x < count * (calc.out + 2)
    /\ (count = 4 /\ calc.i = 2 /\ calc.x = Pct(50)) => calc.out = 62500

C17_Witness ==
  /\ calc.fn = "thumbnail" /\ count = 4 /\ calc.i = 2 /\ calc.x = Pct(50)
  /\ calc.out = 62500

\* C18: when the record is gone, a store update of the runner is swallowed:
\* it does not enter the catch block as an error, the failed write does not
\* make the handler throw, and a progress write does not end the worker
\* process (which dies only when the environment stops it).
C18_DeletedRecordIsSwallowed ==
  [][\A r \in Runners :
       /\ (~job.exists /\ run'[r].err = "notfound") => run[r].err = "notfound"
       /\ (~job.exists /\ run[r].pc = "failwrite") => run'[r].pc # "threw"
       /\ (run[r].pc # "crashed" /\ run'[r].pc = "crashed") => env' # env]_vars

\* C19: an error of the store, the queue or the publisher during a run is
\* never written to the record: the handler that caught it changes neither
\* the job's status nor its error.
C19_InfraErrorNotStored ==
  [][\A r \in Runners :
       (run[r].err \in {"infra", "notfound"} /\ HandlerStep(r)) => job' = job]_vars

\* C20: the failed write of a runner leaves the job with a non-empty error
\* and without an output reference, whatever made the run fail.
C20_FailedHasErrorNoOutput ==
  [][\A r \in Runners :
       (run[r].pc = "failwrite" /\ run'[r].pc = "pubfail")
         => (job'.status = "failed" /\ job'.error # NULL /\ job'.output = NULL)]_vars

\* C21: the handler's first step changes nothing when the job is already
\* processing, completed or failed: status, startedAt and progress stay.
C21_FirstStepIdempotent ==
  [][\A r \in Runners :
       (run[r].pc = "mark" /\ run'[r].pc # "mark" /\ job.exists
          /\ job.status \in {"processing", "completed", "failed"})
         => job' = job]_vars

\* C22: a completed or failed job has completedAt set, and the timestamps
\* that are set are in order: createdAt <= startedAt <= completedAt.
C22_TimestampsSetAndOrdered ==
  job.exists =>
    /\ job.status \in Terminal => job.completedAt # -1
    /\ job.startedAt # -1 => job.createdAt <= job.startedAt
    /\ (job.startedAt # -1 /\ job.completedAt # -1)
         => job.startedAt <= job.completedAt

\* C23: startedAt is set if and only if the job's status has at some point
\* been processing: a new job is pending without startedAt, and every step
\* leaves startedAt set exactly when it was set before or the status it
\* writes is processing.
C23_StartedIffEverProcessing ==
  /\ (job.startedAt = -1 /\ job.status = "pending")
  /\ [][(job.exists /\ job'.exists)
         => ((job'.startedAt # -1)
               <=> (job.startedAt # -1 \/ job'.status = "processing"))]_vars

C23_Witness ==
  /\ job.exists /\ job.status = "completed" /\ job.startedAt # -1
  /\ \E r \in Runners : run[r].pc = "returned"

\* C24: a client that opens the stream and polls while the job is being
\* processed reads a snapshot whose progress is at least the progress
\* published last before the read (or a terminal status), is written the
\* terminal event published after Redis subscribed its connection, and is
\* written no event published before that
C24_SnapshotThenLiveTerminal ==
  /\ (sse[1].snap.status # "none" /\ sse[1].pub >= 0) =>
        \/ sse[1].snap.status \in Terminal
        \/ sse[1].snap.progress >= sse[1].pub
  /\ (/\ sse[1].pc = "open"
      /\ sse[1].cursor = Len(events)
      /\ \E n \in DOMAIN events :
            n > sse[1].from /\ events[n].status \in Terminal) =>
        \E k \in DOMAIN sse[1].got : events[sse[1].got[k]].status \in Terminal
  /\ \A k \in DOMAIN sse[1].got : sse[1].got[k] > sse[1].from

\* a terminal event was written to the stream of s
TerminalDelivered(s) ==
  \E k \in DOMAIN sse[s].got : events[sse[s].got[k]].status \in Terminal

\* the stream of s is torn down
TornDown(s) ==
  /\ ~sse[s].heartbeat
  /\ sse[s].redis = "closed"
  /\ sse[s].ended

\* C25: every stream on which a terminal event was delivered or whose
\* client disconnected, at any point after the request arrived, is
\* eventually torn down: heartbeat stopped, Redis connection unsubscribed
\* and closed, response ended
C25_EventuallyTornDown ==
  \A s \in Subs : (TerminalDelivered(s) \/ sse[s].gone) ~> TornDown(s)

\* C26: teardown racing with a publish: running cleanup again changes
\* nothing, and no event or heartbeat is written to a response that has
\* been ended
C26_NoWriteAfterEnd ==
  \A s \in Subs :
    /\ Cleanup(Cleanup(sse[s])) = Cleanup(sse[s])
    /\ sse[s].lateWrites = 0

\* C27: every stream is written exactly the events published since Redis
\* subscribed its connection, in publish order, until it is ended
C27_EveryEventInOrder ==
  \A s \in Subs :
    (sse[s].pc = "open" /\ ~sse[s].ended) =>
      sse[s].got = [k \in 1..(sse[s].cursor - sse[s].from) |-> sse[s].from + k]

\* the processing events n that follow processing event m of the same
\* runner with no processing event of that runner in between
NextProcessing(m) ==
  {n \in DOMAIN events :
     /\ m < n
     /\ events[n].status = "processing"
     /\ events[n].by = events[m].by
     /\ \A k \in DOMAIN events :
          (m < k /\ k < n) =>
            ~(events[k].status = "processing" /\ events[k].by = events[m].by)}

\* C28: for every job kind, a processing event follows the runner's
\* previous processing event by at least 1 second and differs from it by
\* at least 1 percentage point
C28_OneEventPerThrottleWindow ==
  \A m \in DOMAIN events :
    events[m].status = "processing" =>
      \A n \in NextProcessing(m) :
        /\ events[n].at - events[m].at >= 1
        /\ \/ events[n].progress - events[m].progress >= Pct(1)
           \/ events[m].progress - events[n].progress >= Pct(1)

\* C29: the stderr listener calls onProgress at most once per chunk, and
\* the value it passes lies in [0,100], for the time marker and for the
\* percentage marker
C29_ForwardedProgressInRange ==
  calc.fn = "parse" =>
    /\ calc.calls <= 1
    /\ calc.calls = 1 => (0 <= calc.out /\ calc.out <= Pct(100))

\* a single pass compression job (preset medium) whose handler returned
\* (none of its awaits failed) and whose callbacks are done, after an
\* invocation that exited with code 0 and left an output file
HappyPathDone ==
  /\ kind = "compress"
  /\ ~opt
  /\ run[1].pc = "returned"
  /\ ~run[1].failed
  /\ run[1].size = "size"
  /\ cbs[1] = <<>>

\* C30: the happy path of a compression job ends with status completed,
\* progress 100, the size of the output file, no error, and a completed
\* event as the last event published
C30_HappyPathCompression ==
  HappyPathDone =>
    /\ job.status = "completed"
    /\ job.progress = Pct(100)
    /\ job.outputSize = "size"
    /\ job.error = NULL
    /\ events # <<>>
    /\ events[Len(events)].status = "completed"

C32_ProgressInReportOrder ==
  /\ [](\A r \in Runners :
          (job.exists /\ job.status = "processing" /\ run[r].pc = "exec"
             /\ run[r].reported # -1 /\ cbs[r] = <<>>
             /\ \A q \in Runners \ {r} : run[q].pc = "idle")
            => job.progress = run[r].reported)
  /\ [][\A r \in Runners :
          (/\ Len(events') = Len(events) + 1
           /\ events'[Len(events')].status = "processing"
           /\ events'[Len(events')].by = r
           /\ Len(cbs'[r]) < Len(cbs[r]))
            => cbs'[r] = Tail(cbs[r])]_vars

\* C33: every invocation has its own timer: it is armed while the child
\* runs and has not timed out, it is cancelled once the child has ended,
\* no invocation is spawned while the timer of an earlier one is pending,
\* and each next invocation starts with a fresh timer
C33_TimerPerInvocation ==
  /\ [](\A r \in Runners :
          /\ run[r].ex.proc \in {"exited", "errored"} => ~run[r].ex.timer
          /\ (run[r].ex.proc = "running" /\ ~run[r].ex.timedOut) => run[r].ex.timer
          /\ run[r].ex.stale = 0)
  /\ [][\A r \in Runners :
          run'[r].i = run[r].i + 1 =>
            /\ run'[r].ex.proc = "running"
            /\ run'[r].ex.timer
            /\ ~run'[r].ex.timedOut]_vars

\* the second invocation of a job runs with its timer armed
C33_Witness ==
  /\ kind \in {"gif", "thumbnail"}
  /\ run[1].i = 1
  /\ run[1].ex.proc = "running"
  /\ run[1].ex.timer

\* C34: the task is put on the queue only when the job's record exists with
\* status pending and progress 0, a handler is handed a task only when the
\* record was created, and a request that validation rejected leaves no
\* record and no task
C34_RecordBeforeTask ==
  /\ [](/\ sub.pc = "rejected" => (~job.exists /\ run[1].pc = "unqueued")
        /\ run[1].pc # "unqueued" => (job.exists /\ sub.pc = "accepted"))
  /\ [][(run[1].pc = "unqueued" /\ run'[1].pc # "unqueued") =>
          (job.exists /\ job.status = "pending" /\ job.progress = 0)]_vars

\* the handler was handed the task of an accepted submission
C34_Witness ==
  /\ sub.pc = "accepted"
  /\ job.exists
  /\ run[1].pc = "mark"

\* C39: a pending job has a task on the queue or in a handler's hands (or
\* its submission is about to enqueue one), and every job that was created
\* eventually reaches a terminal status
C39_CreatedJobTerminates ==
  /\ []((job.exists /\ job.status = "pending") =>
          (run[1].pc \in {"idle", "mark"} \/ sub.pc = "enqueue"))
  /\ (job.exists ~> (job.exists /\ job.status \in Terminal))

\* C35: generate returns the passes first, second for twoPass and the one
\* pass single otherwise, so a compression job runs two invocations exactly
\* when its preset is high and one for medium, low or no preset
C35_TwoPassOnlyForHigh ==
  calc.fn = "plan" =>
    /\ calc.passes = IF calc.preset = "high" THEN <<"first", "second">>
                     ELSE <<"single">>
    /\ Len(calc.passes) = NumInvocations

\* the plan of a high preset job
C35_Witness ==
  /\ calc.fn = "plan"
  /\ calc.preset = "high"
  /\ calc.passes = <<"first", "second">>

\* C36: the invocations of a job run one after the other in order, and an
\* invocation is spawned only when none before it returned success = false
C36_FailedInvocationStopsJob ==
  [][\A r \in Runners :
      (run'[r].i # run[r].i /\ run'[r].pc = "exec") =>
        /\ run'[r].i = run[r].i + 1
        /\ run[r].ex.proc = "running"
        /\ ~run'[r].failed]_vars

\* C38: every event a worker publishes for a job, of any kind, is on the
\* channel the progress stream of that job subscribes to
C38_PublishedOnStreamChannel ==
  \A n \in DOMAIN events : events[n].channel = StreamChannel

\* elapsed/total*100 in thousandths, capped at 100 and rounded to a tenth
TimeProgress(time, total) ==
  Min(((2 * 1000 * time + total) \div (2 * total)) * 100, Pct(100))

\* C37: after a chunk announced the total duration, a later chunk with an
\* elapsed-time marker yields elapsed/total*100 capped at 100, also when
\* that chunk carries no duration itself
C37_DurationRemembered ==
  (calc.fn = "parse2" /\ calc.prev.duration > 0 /\ calc.chunk.time # -1) =>
    /\ calc.calls = 1
    /\ calc.out = TimeProgress(calc.chunk.time,
                               IF calc.chunk.duration > 0 THEN calc.chunk.duration
                               ELSE calc.prev.duration)

\* C40: a call is settled once its child has exited, failed to spawn or
\* timed out; the first of timeout, 'error' and 'close' decides how (a
\* timeout rejects, an 'error' rejects, a 'close' resolves), and once the
\* call is settled nothing changes its outcome
C40_SettlesExactlyOnce ==
  /\ []((exe.ex.proc \in {"exited", "errored"} \/ exe.ex.timedOut) =>
          exe.ex.promise \in {"resolved", "rejected"})
  /\ [][(exe.ex.promise \in {"resolved", "rejected"} /\ exe'.calls = exe.calls) =>
          (exe'.ex.promise = exe.ex.promise /\ exe'.ex.result = exe.ex.result)]_vars
  /\ [][(exe.ex.promise = "pending" /\ exe'.ex.promise # "pending") =>
          /\ (exe'.ex.timedOut /\ ~exe.ex.timedOut) =>
                (exe'.ex.promise = "rejected" /\ exe'.ex.result = "timeout")
          /\ exe'.ex.proc = "errored" =>
                (exe'.ex.promise = "rejected" /\ exe'.ex.result = "spawn")
          /\ exe'.ex.proc = "exited" => exe'.ex.promise = "resolved"]_vars

\* the timer fired first and the child closed afterwards: the call stays
\* rejected with the timeout
C40_Witness ==
  /\ exe.ex.timedOut
  /\ exe.ex.proc = "exited"
  /\ exe.ex.promise = "rejected"
  /\ exe.ex.result = "timeout"

====
